---------------------------- MODULE Spec2Model ----------------------------
(***************************************************************************)
(* HTML to URL service (app.py): upload_html, generate_pdf_with_gotenberg,  *)
(* serve_file, stats, cleanup_old_files and start_cleanup_thread as a state *)
(* machine over the directory HTML_DIR.                                     *)
(*                                                                          *)
(* Requests are handled by concurrent workers; every handler is cut into    *)
(* steps at its file-system calls, so that the interleavings of two         *)
(* handlers and of a handler with the sweeper are those of the program.     *)
(* Statements between two file-system calls touch only locals and are part  *)
(* of the step of the call that follows them.                               *)
(*                                                                          *)
(* Not modelled: the rate limiter, CORS, gzip, Swagger (external            *)
(* collaborators of the handlers) and Flask's URL routing.                  *)
(***************************************************************************)
EXTENDS Integers, Sequences, FiniteSets, TLC

(***************************************************************************)
(* Bounds and program constants.                                            *)
(***************************************************************************)
\* Longest request body, in bytes, that a client sends.
MaxBodyLen == 4

\* Last instant of the clock (time.time(), in model ticks).
MaxTime == 2

\* MAX_CONTENT_LENGTH (app.py:89), scaled from 1 MiB to 3 bytes.
MAX_CONTENT_LENGTH == 3

\* MAX_FILE_AGE (app.py:83), scaled from 24 h to 1 tick.  A tick is longer
\* than any request (the render call is bounded by its 30 s timeout).
MAX_FILE_AGE == 1

\* U+FFFD, what bytes.decode(errors="replace") puts for an undecodable byte.
REPLACEMENT == 65533

\* "\n"
LF == 10

(***************************************************************************)
(* Bytes and text.  A byte is a number 0..255, a str is a sequence of code  *)
(* points, a bytes object a sequence of bytes.                              *)
(***************************************************************************)
\* The bytes bodies are made of: LF (ASCII) and 0xFF, which is valid nowhere
\* in UTF-8.
BodyBytes == {LF, 255}

\* U+00E9 in UTF-8 (0xC3 0xA9), and its first byte alone.
EAcute == <<195, 169>>
CutShort == <<195>>

RECURSIVE SeqsUpTo(_, _)
SeqsUpTo(S, n) ==
    IF n = 0 THEN {<<>>}
    ELSE LET shorter == SeqsUpTo(S, n - 1)
         IN  shorter \cup {Append(s, x) : s \in {t \in shorter : Len(t) = n - 1}, x \in S}

IsContinuation(b) == b >= 128 /\ b <= 191

\* bytes.decode("utf-8", errors="replace") on bodies over BodyBytes: ASCII,
\* two-byte sequences, and U+FFFD for every byte that starts no sequence.
RECURSIVE Utf8Decode(_)
Utf8Decode(b) ==
    IF b = <<>> THEN <<>>
    ELSE IF b[1] < 128 THEN <<b[1]>> \o Utf8Decode(Tail(b))
    ELSE IF b[1] >= 194 /\ b[1] <= 223 /\ Len(b) >= 2 /\ IsContinuation(b[2])
         THEN <<(b[1] % 32) * 64 + (b[2] % 64)>> \o Utf8Decode(Tail(Tail(b)))
    ELSE <<REPLACEMENT>> \o Utf8Decode(Tail(b))

\* str.encode("utf-8") for code points below 65536.
Utf8EncodeChar(c) ==
    IF c < 128 THEN <<c>>
    ELSE IF c < 2048 THEN <<192 + (c \div 64), 128 + (c % 64)>>
    ELSE <<224 + (c \div 4096), 128 + ((c \div 64) % 64), 128 + (c % 64)>>

RECURSIVE Utf8Encode(_)
Utf8Encode(s) ==
    IF s = <<>> THEN <<>> ELSE Utf8EncodeChar(s[1]) \o Utf8Encode(Tail(s))

\* os.linesep of the platform the service runs on (POSIX).
LineSep == <<LF>>

\* What open(path, "w", encoding="utf-8").write(s) puts in the file: text
\* mode turns every "\n" into os.linesep, then encodes.
RECURSIVE WriteText(_)
WriteText(s) ==
    IF s = <<>> THEN <<>>
    ELSE (IF s[1] = LF THEN LineSep ELSE Utf8EncodeChar(s[1])) \o WriteText(Tail(s))

\* A body is valid UTF-8 when decoding replaces nothing.
ValidUtf8(b) == \A i \in 1..Len(Utf8Decode(b)) : Utf8Decode(b)[i] # REPLACEMENT

\* hashlib.md5(b).hexdigest(): a digest is a value of its own kind that
\* stands for the bytes it was computed from (MD5 taken as collision-free).
Md5Hex(b) == <<"md5", b>>

(***************************************************************************)
(* File names.  A name is a sequence of characters.                         *)
(***************************************************************************)
HtmlExt == <<".", "h", "t", "m", "l">>
PdfExt == <<".", "p", "d", "f">>

\* uuid.uuid4().hex[:12]: the ids a draw can give, cut down to two.
Ids == {<<"a">>, <<"b">>}

HtmlName(id) == id \o HtmlExt
PdfName(id) == id \o PdfExt

\* A file of HTML_DIR that no upload wrote (the directory is taken as found:
\* os.makedirs(HTML_DIR, exist_ok=True)).
ForeignName == <<"k", "e", "e", "p">>

ArtifactNames == {HtmlName(i) : i \in Ids} \cup {PdfName(i) : i \in Ids}
DirNames == ArtifactNames \cup {ForeignName}

EndsWith(s, suffix) ==
    /\ Len(s) >= Len(suffix)
    /\ SubSeq(s, Len(s) - Len(suffix) + 1, Len(s)) = suffix

Contains(s, ch) == \E i \in 1..Len(s) : s[i] = ch


(***************************************************************************)
(* State.                                                                   *)
(***************************************************************************)
VARIABLES
    store,        \* HTML_DIR: file name -> [exists, bytes, ctime]
    now,          \* time.time()
    PDF_ENABLED,  \* configuration, read once at import
    API_KEY,      \* configuration; "" when no key is configured
    up,           \* upload_html: one record of locals per worker
    ft,           \* serve_file: locals of the worker serving a fetch
    sts,          \* stats: locals of the worker serving /stats
    sw,           \* cleanup_old_files: locals of the sweeper thread
    client,       \* the ETag a client of /files was given last, and for which name
    rq,           \* a request on its way through before_request, a view and
                  \* after_request: its X-Request-ID, flask.g and the response
    st            \* start_cleanup_thread: _cleanup_started, the threads
                  \* started, and where each caller is

vars == <<store, now, PDF_ENABLED, API_KEY, up, ft, sts, sw, client, rq, st>>

Uploaders == {"u1", "u2"}

NoFile == [exists |-> FALSE, bytes |-> <<>>, ctime |-> 0]
File(b, t) == [exists |-> TRUE, bytes |-> b, ctime |-> t]

\* HTML_DIR as the process finds it: empty, or holding one foreign file.
EmptyDir == [n \in DirNames |-> NoFile]
FoundDir == [n \in DirNames |-> IF n = ForeignName THEN File(<<LF>>, 0) ELSE NoFile]

\* os.path.exists(os.path.join(HTML_DIR, name)) for a name without a path
\* separator.
Exists(name) == name \in DirNames /\ store[name].exists

\* os.listdir(HTML_DIR)
ListDir == {n \in DirNames : store[n].exists}

\* A faulty variant: open creates nothing.
Truncated_NotCreated(name) == store

\* open(path, "w") / open(path, "wb"): the file is created, or cut to
\* length 0 when it is there; either way the inode changes now.
Truncated(name) == [store EXCEPT ![name] = File(<<>>, now)]

\* f.write(b) and close on a handle opened by Truncated: the bytes go to
\* offset 0 of whatever the file holds by then (another handle may have
\* written in between), and nothing after them is cut.
Overlay(old, b) == b \o SubSeq(old, Len(b) + 1, Len(old))

\* A faulty variant: the bytes written are lost.
Written_Dropped(name, b) == store

\* A file removed since it was opened stays removed: the bytes go to the
\* unlinked file, which is gone with the handle (POSIX).
Written(name, b) ==
    IF store[name].exists
    THEN [store EXCEPT ![name] = File(Overlay(store[name].bytes, b), now)]
    ELSE store

Null == <<>>

\* f"{BASE_URL}/files/{filename}"
Url(filename) == <<"BASE_URL", "/files/">> \o filename

(***************************************************************************)
(* POST /upload: require_api_key and upload_html.                           *)
(***************************************************************************)
\* A request: the body as received, whether it came chunked (then
\* request.content_length is None, otherwise it is the body's length) and
\* the X-API-Key header ("" when absent).
Keys == {"", "k1", "k2"}
Request(raw, chunked, key) == [raw |-> raw, chunked |-> chunked, key |-> key]

NoResponse == [status |-> 0]
ErrorResponse(code) == [status |-> code, json |-> [error |-> "error"]]
\* An exception no handler catches: Flask answers 500.
Unhandled == [status |-> 500]

IdleUpload ==
    [pc |-> "idle", req |-> Request(<<>>, FALSE, ""), html_content |-> <<>>,
     file_id |-> <<>>, outcome |-> "", pdf_generated |-> FALSE, wrote |-> {},
     renders |-> 0, response |-> NoResponse]

\* A faulty variant: only a missing header is turned away.
AuthRejects_MissingOnly(req) == API_KEY # "" /\ req.key = ""

\* require_api_key: 401 unless no key is configured or the header equals it.
AuthRejects(req) == API_KEY # "" /\ (req.key = "" \/ req.key # API_KEY)

\* "request.content_length and request.content_length > MAX_CONTENT_LENGTH"
DeclaredTooLarge(req) ==
    ~req.chunked /\ Len(req.raw) # 0 /\ Len(req.raw) > MAX_CONTENT_LENGTH

\* request.get_data(as_text=True)
GetData(req) == Utf8Decode(req.raw)

\* A faulty variant: the characters are counted, not the bytes of their encoding.
ActualTooLarge_CountsChars(html_content) == Len(html_content) > MAX_CONTENT_LENGTH

\* len(html_content.encode('utf-8')) > MAX_CONTENT_LENGTH
ActualTooLarge(html_content) == Len(Utf8Encode(html_content)) > MAX_CONTENT_LENGTH

\* A faulty variant: the empty body is not turned away.
Precheck_NoEmptyCheck(req) ==
    IF AuthRejects(req) THEN 401
    ELSE IF DeclaredTooLarge(req) THEN 413
    ELSE IF ActualTooLarge(GetData(req)) THEN 413
    ELSE 0

\* The status upload_html answers before it draws an id, 0 when it goes on.
Precheck(req) ==
    IF AuthRejects(req) THEN 401
    ELSE IF DeclaredTooLarge(req) THEN 413
    ELSE IF GetData(req) = <<>> THEN 400
    ELSE IF ActualTooLarge(GetData(req)) THEN 413
    ELSE 0

\* A faulty variant: the PDF's name and URL are given whenever rendering is
\* enabled.
ResponseData_PdfAlways(file_id, pdf_generated) ==
    LET base == [success |-> TRUE, id |-> file_id,
                 filename |-> HtmlName(file_id), url |-> Url(HtmlName(file_id))]
        pdf  == [pdf_filename |-> PdfName(file_id),
                 pdf_url |-> Url(PdfName(file_id)),
                 pdf_generated |-> pdf_generated]
    IN  IF PDF_ENABLED THEN base @@ pdf ELSE base

\* response_data of a successful upload.
ResponseData(file_id, pdf_generated) ==
    LET base == [success |-> TRUE, id |-> file_id,
                 filename |-> HtmlName(file_id), url |-> Url(HtmlName(file_id))]
        pdf  == [pdf_filename |-> IF pdf_generated THEN PdfName(file_id) ELSE Null,
                 pdf_url |-> IF pdf_generated THEN Url(PdfName(file_id)) ELSE Null,
                 pdf_generated |-> pdf_generated]
    IN  IF PDF_ENABLED THEN base @@ pdf ELSE base

Success(u, pdf_generated) ==
    [u EXCEPT !.pc = "done", !.pdf_generated = pdf_generated,
              !.response = [status |-> 200,
                            json |-> ResponseData(u.file_id, pdf_generated)]]

Others == UNCHANGED <<now, PDF_ENABLED, API_KEY, rq, st>>

\* Lines 126-136 and 257-279: authentication, the size and emptiness checks,
\* and the first id.
UploadRequest(p, requests) ==
    /\ up[p].pc = "idle"
    /\ \E req \in requests :
         IF Precheck(req) # 0
         THEN up' = [up EXCEPT ![p] = [@ EXCEPT !.pc = "done", !.req = req,
                                         !.response = ErrorResponse(Precheck(req))]]
         ELSE \E id \in Ids :
                up' = [up EXCEPT ![p] = [@ EXCEPT !.pc = "check", !.req = req,
                                           !.html_content = GetData(req),
                                           !.file_id = id]]
    /\ UNCHANGED <<store, ft, sts, sw, client>>
    /\ Others

\* Lines 282-287: while os.path.exists(html_filepath): draw another id.
UploadCheck(p) ==
    /\ up[p].pc = "check"
    /\ \/ /\ Exists(HtmlName(up[p].file_id))
          /\ \E id \in Ids : up' = [up EXCEPT ![p].file_id = id]
       \/ /\ ~Exists(HtmlName(up[p].file_id))
          /\ up' = [up EXCEPT ![p].pc = "open"]
    /\ UNCHANGED <<store, ft, sts, sw, client>>
    /\ Others

\* Line 290: open(html_filepath, "w"); it raises when the disk or the
\* directory's permissions refuse it.
UploadOpen(p) ==
    /\ up[p].pc = "open"
    /\ \/ /\ up' = [up EXCEPT ![p] = [@ EXCEPT !.pc = "done", !.response = Unhandled]]
          /\ UNCHANGED store
       \/ /\ store' = Truncated(HtmlName(up[p].file_id))
          /\ up' = [up EXCEPT ![p] = [@ EXCEPT !.pc = "write",
                                        !.wrote = @ \cup {HtmlName(up[p].file_id)}]]
    /\ UNCHANGED <<ft, sts, sw, client>>
    /\ Others

\* Line 291: f.write(html_content) and the close that flushes it; a full
\* disk makes it raise and leaves the file as it was opened.
UploadWrite(p) ==
    /\ up[p].pc = "write"
    /\ \/ /\ up' = [up EXCEPT ![p] = [@ EXCEPT !.pc = "done", !.response = Unhandled]]
          /\ UNCHANGED store
       \/ /\ store' = Written(HtmlName(up[p].file_id), WriteText(up[p].html_content))
          /\ up' = [up EXCEPT ![p] =
                      IF PDF_ENABLED THEN [@ EXCEPT !.pc = "render"]
                      ELSE Success(@, FALSE)]
    /\ UNCHANGED <<ft, sts, sw, client>>
    /\ Others

\* response.content of a 200 from Gotenberg: the rendition of the HTML sent
\* ("%" and its bytes stand for the PDF).
Rendition(html_content) == <<37>> \o Utf8Encode(html_content)

\* What requests.post can end in (line 159).
RenderOutcomes == {"200", "non200", "ConnectionError", "Timeout"}

\* A faulty variant: a call that failed is made once more.
Rendered_Retried(u, outcome) ==
    [u EXCEPT !.outcome = outcome,
              !.renders = IF outcome = "200" THEN @ + 1 ELSE @ + 2]

\* The locals once requests.post has ended in outcome.
Rendered(u, outcome) == [u EXCEPT !.outcome = outcome, !.renders = @ + 1]

\* A faulty variant: the failure of the render call is not caught.
RenderFailed_Raises(u, outcome) ==
    [Rendered(u, outcome) EXCEPT !.pc = "done", !.response = Unhandled]

\* Lines 165-174 and 302-321: a non-200 answer or an exception makes
\* generate_pdf_with_gotenberg return False, and the upload answers without
\* a PDF.
RenderFailed(u, outcome) == Success(Rendered(u, outcome), FALSE)

\* Lines 298 and 139-162: the call to Gotenberg and, on a 200,
\* open(pdf_path, 'wb').  Every exception is caught: the function returns
\* False.
UploadRender(p) ==
    /\ up[p].pc = "render"
    /\ \E outcome \in RenderOutcomes :
         \/ /\ outcome # "200"
            /\ up' = [up EXCEPT ![p] = RenderFailed(@, outcome)]
            /\ UNCHANGED store
         \/ /\ outcome = "200"
            /\ up' = [up EXCEPT ![p] = RenderFailed(@, outcome)]
            /\ UNCHANGED store
         \/ /\ outcome = "200"
            /\ store' = Truncated(PdfName(up[p].file_id))
            /\ up' = [up EXCEPT ![p] = [Rendered(@, outcome) EXCEPT !.pc = "pdfwrite",
                                          !.wrote = @ \cup {PdfName(up[p].file_id)}]]
    /\ UNCHANGED <<ft, sts, sw, client>>
    /\ Others

\* Lines 163-164 and 299-321: f.write(response.content), return True,
\* os.path.getsize(pdf_filepath); a failed write is caught and returns False.
\* getsize (line 300) is outside the try: it raises, and nothing catches it,
\* when the file was removed after it was opened.
UploadPdfWrite(p) ==
    /\ up[p].pc = "pdfwrite"
    /\ \/ /\ up' = [up EXCEPT ![p] = Success(@, FALSE)]
          /\ UNCHANGED store
       \/ /\ store' = Written(PdfName(up[p].file_id), Rendition(up[p].html_content))
          /\ up' = [up EXCEPT ![p] =
                      IF Exists(PdfName(up[p].file_id))
                      THEN Success(@, TRUE)
                      ELSE [@ EXCEPT !.pc = "done", !.pdf_generated = TRUE,
                                     !.response = Unhandled]]
    /\ UNCHANGED <<ft, sts, sw, client>>
    /\ Others

\* The response has gone out; the worker takes the next request.
UploadReturn(p) ==
    /\ up[p].pc = "done"
    /\ up' = [up EXCEPT ![p] = IdleUpload]
    /\ UNCHANGED <<store, ft, sts, sw, client>>
    /\ Others

Upload(p, requests) ==
    \/ UploadRequest(p, requests)
    \/ UploadCheck(p)
    \/ UploadOpen(p)
    \/ UploadWrite(p)
    \/ UploadRender(p)
    \/ UploadPdfWrite(p)
    \/ UploadReturn(p)


(***************************************************************************)
(* GET /files/<filename>: serve_file.                                       *)
(***************************************************************************)
\* Lines 347-350: the name ends in .html or .pdf and holds no path separator.
is_html(filename) == EndsWith(filename, HtmlExt)
is_pdf(filename) == EndsWith(filename, PdfExt)

\* A faulty variant: the backslash is forgotten.
ValidName_NoBackslash(filename) ==
    ~(\/ (~is_html(filename) /\ ~is_pdf(filename))
      \/ Contains(filename, "/"))

ValidName(filename) ==
    ~(\/ (~is_html(filename) /\ ~is_pdf(filename))
      \/ Contains(filename, "/")
      \/ Contains(filename, "\\"))

\* A request without If-None-Match.
NoHeader == <<>>

\* Lines 366: return '', 304
NotModified == [status |-> 304, body |-> <<>>, headers |-> [none |-> TRUE]]

\* A faulty variant: the headers of an HTML file are set for every file.
FileResponse_HtmlHeadersAlways(filename, etag, body) ==
    [status |-> 200, body |-> body,
     headers |-> [ETag |-> etag, CacheControl |-> "public, max-age=3600",
                  XContentTypeOptions |-> "nosniff", ContentType |-> "text/html",
                  ContentSecurityPolicy |-> "CSP_POLICY",
                  XFrameOptions |-> "SAMEORIGIN"]]

\* Lines 368-389: the 200 response and its headers.
FileResponse(filename, etag, body) ==
    LET common == [ETag |-> etag, CacheControl |-> "public, max-age=3600",
                   XContentTypeOptions |-> "nosniff",
                   ContentType |-> IF is_html(filename) THEN "text/html"
                                   ELSE "application/pdf"]
        html   == [ContentSecurityPolicy |-> "CSP_POLICY", XFrameOptions |-> "SAMEORIGIN"]
        pdf    == [ContentDisposition |-> <<"inline; filename=">> \o filename]
    IN  [status |-> 200, body |-> body,
         headers |-> (IF is_pdf(filename) THEN pdf ELSE [none |-> TRUE])
                     @@ (IF is_html(filename) THEN html ELSE [none |-> TRUE])
                     @@ common]

\* The JSON error responses of lines 351 and 355, and werkzeug's NotFound.
FetchError(code) == [status |-> code, body |-> <<"error">>, headers |-> [none |-> TRUE]]

NoCache == [filename |-> <<>>, etag |-> <<>>]

IdleFetch ==
    [pc |-> "idle", filename |-> <<>>, if_none_match |-> NoHeader, fs |-> 0,
     file_content |-> <<>>, etag |-> <<>>, response |-> NoResponse]

Traversal == <<".", ".", "/">> \o HtmlName(<<"a">>)
Backslashed == <<"x", "\\">> \o PdfName(<<"a">>)

\* The names clients ask for: the artifacts, well-formed names of no
\* artifact, a name without an accepted extension, and two with a separator.
FetchNames ==
    ArtifactNames \cup {<<"z">> \o HtmlExt, <<"z">> \o PdfExt, ForeignName,
                        Traversal, Backslashed}

\* The If-None-Match values clients send: none, the ETag they were given
\* last, the digest of an empty file and that of a body.
HeadersSent(cache) ==
    {NoHeader, Md5Hex(<<>>), Md5Hex(EAcute)} \cup
    (IF cache = NoCache THEN {} ELSE {cache.etag})

\* Lines 347-351: the name is checked before any file-system call.
FetchRequest ==
    /\ ft.pc = "idle"
    /\ \E filename \in FetchNames, inm \in HeadersSent(client) :
         ft' = IF ValidName(filename)
               THEN [ft EXCEPT !.pc = "exists", !.filename = filename,
                               !.if_none_match = inm]
               ELSE [ft EXCEPT !.pc = "done", !.filename = filename,
                               !.if_none_match = inm, !.response = FetchError(400)]
    /\ UNCHANGED <<store, up, sts, sw, client>>
    /\ Others

\* A faulty variant: the handler goes on to open the file without asking whether it
\* is there.
FetchExists_NoCheck ==
    /\ ft.pc = "exists"
    /\ ft' = [ft EXCEPT !.pc = "read", !.fs = @ + 1]
    /\ UNCHANGED <<store, up, sts, sw, client>>
    /\ Others

\* Lines 353-355: os.path.exists(filepath).
FetchExists ==
    /\ ft.pc = "exists"
    /\ ft' = IF Exists(ft.filename)
             THEN [ft EXCEPT !.pc = "read", !.fs = @ + 1]
             ELSE [ft EXCEPT !.pc = "done", !.fs = @ + 1, !.response = FetchError(404)]
    /\ UNCHANGED <<store, up, sts, sw, client>>
    /\ Others

\* Lines 358-366: the file is read and its digest compared with
\* If-None-Match; open() raises FileNotFoundError when the file has gone.
FetchRead ==
    /\ ft.pc = "read"
    /\ ft' = IF ~Exists(ft.filename)
             THEN [ft EXCEPT !.pc = "done", !.fs = @ + 1, !.response = Unhandled]
             ELSE LET content == store[ft.filename].bytes
                      etag    == Md5Hex(content)
                  IN  IF ft.if_none_match = etag
                      THEN [ft EXCEPT !.pc = "done", !.fs = @ + 1,
                                      !.file_content = content, !.etag = etag,
                                      !.response = NotModified]
                      ELSE [ft EXCEPT !.pc = "send", !.fs = @ + 1,
                                      !.file_content = content, !.etag = etag]
    /\ UNCHANGED <<store, up, sts, sw, client>>
    /\ Others

\* Lines 369-389: send_from_directory opens the file again (NotFound when it
\* has gone) and the headers are set.
FetchSend ==
    /\ ft.pc = "send"
    /\ ft' = IF ~Exists(ft.filename)
             THEN [ft EXCEPT !.pc = "done", !.fs = @ + 1, !.response = FetchError(404)]
             ELSE [ft EXCEPT !.pc = "done", !.fs = @ + 1,
                             !.response = FileResponse(ft.filename, ft.etag,
                                                       store[ft.filename].bytes)]
    /\ UNCHANGED <<store, up, sts, sw, client>>
    /\ Others

\* The response has gone out; the client keeps the ETag of a 200.
FetchReturn ==
    /\ ft.pc = "done"
    /\ ft' = IdleFetch
    /\ client' = IF ft.response.status = 200
                 THEN [filename |-> ft.filename, etag |-> ft.response.headers.ETag]
                 ELSE client
    /\ UNCHANGED <<store, up, sts, sw>>
    /\ Others

Fetch ==
    \/ FetchRequest
    \/ FetchExists
    \/ FetchRead
    \/ FetchSend
    \/ FetchReturn

\* serve_file(filename) run to its end with nothing in between.
ServeNow(filename, inm) ==
    IF ~ValidName(filename) THEN FetchError(400)
    ELSE IF ~Exists(filename) THEN FetchError(404)
    ELSE IF inm = Md5Hex(store[filename].bytes) THEN NotModified
    ELSE FileResponse(filename, Md5Hex(store[filename].bytes), store[filename].bytes)

(***************************************************************************)
(* GET /stats: stats.                                                       *)
(***************************************************************************)
KB == 1024
MB == 1024 * 1024

\* round(n / d, 2), in hundredths: the nearest, a tie going to the even one.
Round2(n, d) ==
    LET q == (100 * n) \div d
        r == (100 * n) % d
    IN  IF 2 * r > d \/ (2 * r = d /\ q % 2 = 1) THEN q + 1 ELSE q

\* Line 473, with every file that is not HTML taken for a PDF.
FileType_NoOther(filename) ==
    IF EndsWith(filename, HtmlExt) THEN "html" ELSE "pdf"

\* Line 473
FileType(filename) ==
    IF EndsWith(filename, HtmlExt) THEN "html"
    ELSE IF EndsWith(filename, PdfExt) THEN "pdf"
    ELSE "other"

\* Lines 459-463: the locals; filename is the file the loop is at, and sizes
\* keeps the file_size of every entry of files, which the entry itself
\* holds only rounded.
IdleStats ==
    [pc |-> "idle", current_time |-> 0, todo |-> {}, filename |-> <<>>,
     file_age |-> 0, files |-> <<>>, sizes |-> <<>>, total_size |-> 0,
     html_count |-> 0, pdf_count |-> 0, response |-> NoResponse]

\* Lines 459-465: the request arrives, the time is read and the directory
\* listed.  (No limit on the rate of requests.)
StatsRequest ==
    /\ sts.pc = "idle"
    /\ sts' = [IdleStats EXCEPT !.pc = "loop", !.current_time = now,
                                !.todo = ListDir]
    /\ UNCHANGED <<store, up, ft, sw, client>>
    /\ Others

\* Lines 465-467: the next name of the listing; os.path.isfile
StatsIsFile ==
    /\ sts.pc = "loop"
    /\ \E filename \in sts.todo :
         sts' = IF Exists(filename)
                THEN [sts EXCEPT !.pc = "getctime", !.todo = @ \ {filename},
                                 !.filename = filename]
                ELSE [sts EXCEPT !.todo = @ \ {filename}]
    /\ UNCHANGED <<store, up, ft, sw, client>>
    /\ Others

\* Line 468: os.path.getctime raises for a file that has gone, and nothing
\* catches it.
StatsGetCtime ==
    /\ sts.pc = "getctime"
    /\ sts' = IF Exists(sts.filename)
              THEN [sts EXCEPT !.pc = "getsize",
                               !.file_age = sts.current_time - store[sts.filename].ctime]
              ELSE [sts EXCEPT !.pc = "done", !.response = Unhandled]
    /\ UNCHANGED <<store, up, ft, sw, client>>
    /\ Others

\* Lines 479-485
FileEntry(filename, file_size, file_age) ==
    [filename |-> filename,
     type |-> FileType(filename),
     size_kb |-> Round2(file_size, KB),
     age |-> file_age,
     remaining |-> IF MAX_FILE_AGE - file_age > 0 THEN MAX_FILE_AGE - file_age ELSE 0]

\* Lines 469-485: os.path.getsize, which raises like getctime, and the rest
\* of the loop's body.
StatsGetSize ==
    /\ sts.pc = "getsize"
    /\ sts' = IF Exists(sts.filename)
              THEN LET file_size == Len(store[sts.filename].bytes)
                       file_type == FileType(sts.filename)
                   IN  [sts EXCEPT
                          !.pc = "loop",
                          !.total_size = @ + file_size,
                          !.html_count = IF file_type = "html" THEN @ + 1 ELSE @,
                          !.pdf_count = IF file_type = "pdf" THEN @ + 1 ELSE @,
                          !.files = Append(@, FileEntry(sts.filename, file_size, sts.file_age)),
                          !.sizes = Append(@, file_size)]
              ELSE [sts EXCEPT !.pc = "done", !.response = Unhandled]
    /\ UNCHANGED <<store, up, ft, sw, client>>
    /\ Others

\* Lines 487-497; the figures of the configuration other than pdf_enabled
\* are left out.
StatsResponse(s) ==
    [status |-> 200,
     json |-> [total_files |-> Len(s.files),
               html_files |-> s.html_count,
               pdf_files |-> s.pdf_count,
               total_size_mb |-> Round2(s.total_size, MB),
               pdf_enabled |-> PDF_ENABLED,
               files |-> s.files]]

StatsSend ==
    /\ sts.pc = "loop"
    /\ sts.todo = {}
    /\ sts' = [sts EXCEPT !.pc = "done", !.response = StatsResponse(sts)]
    /\ UNCHANGED <<store, up, ft, sw, client>>
    /\ Others

\* The response has left.
StatsReturn ==
    /\ sts.pc = "done"
    /\ sts' = IdleStats
    /\ UNCHANGED <<store, up, ft, sw, client>>
    /\ Others

Stats ==
    \/ StatsRequest
    \/ StatsIsFile
    \/ StatsGetCtime
    \/ StatsGetSize
    \/ StatsSend
    \/ StatsReturn

(***************************************************************************)
(* The sweeper thread: cleanup_old_files.                                   *)
(***************************************************************************)
\* Beside the locals, the sweeper's record keeps, while a sweep runs, the
\* directory as os.listdir found it (listed).
NoName == <<>>

IdleSweeper ==
    [pc |-> "sleep", current_time |-> 0, todo |-> {}, victim |-> NoName,
     deleted_count |-> 0, listed |-> EmptyDir]

\* Line 187: file_age > MAX_FILE_AGE
Expired(current_time, ctime) == current_time - ctime > MAX_FILE_AGE

\* A faulty variant: the exception ends the thread.
SweepAborted_Dies == [IdleSweeper EXCEPT !.pc = "dead"]

\* Line 193: an exception anywhere in the sweep is caught outside the loop
\* over the listing; what was left of the listing is not visited.
SweepAborted == [IdleSweeper EXCEPT !.pc = "except"]

\* Lines 181-183: a sweep starts: the time is read once and the directory
\* listed.
\* os.listdir raises when the directory cannot be read.
SweepStart ==
    /\ sw.pc = "sleep"
    /\ \/ sw' = [IdleSweeper EXCEPT !.pc = "scan", !.current_time = now,
                                    !.todo = ListDir, !.listed = store]
       \/ sw' = SweepAborted
    /\ UNCHANGED <<store, up, ft, sts, client>>
    /\ Others

\* Lines 184-187: the next file of the listing, in whatever order listdir
\* gave: isfile and getctime.
SweepExamine ==
    /\ sw.pc = "scan"
    /\ sw.victim = NoName
    /\ \E name \in sw.todo :
         sw' = IF Exists(name) /\ Expired(sw.current_time, store[name].ctime)
               THEN [sw EXCEPT !.todo = @ \ {name}, !.victim = name]
               ELSE [sw EXCEPT !.todo = @ \ {name}]
    /\ UNCHANGED <<store, up, ft, sts, client>>
    /\ Others

\* Lines 188-190: os.remove(filepath); it raises when the file has gone or
\* may not be removed.
SweepRemove ==
    /\ sw.pc = "scan"
    /\ sw.victim # NoName
    /\ \/ /\ Exists(sw.victim)
          /\ store' = [store EXCEPT ![sw.victim] = NoFile]
          /\ sw' = [sw EXCEPT !.victim = NoName, !.deleted_count = @ + 1]
       \/ /\ sw' = SweepAborted
          /\ UNCHANGED store
    /\ UNCHANGED <<up, ft, sts, client>>
    /\ Others

\* Lines 191-196: the listing is done; the thread sleeps CLEANUP_INTERVAL.
SweepEnd ==
    /\ sw.pc = "scan"
    /\ sw.victim = NoName
    /\ sw.todo = {}
    /\ sw' = IdleSweeper
    /\ UNCHANGED <<store, up, ft, sts, client>>
    /\ Others

\* Lines 194-196: the exception is logged and the thread sleeps
\* CLEANUP_INTERVAL, as after a sweep that reached its end.
SweepExcept ==
    /\ sw.pc = "except"
    /\ sw' = IdleSweeper
    /\ UNCHANGED <<store, up, ft, sts, client>>
    /\ Others

Sweep ==
    \/ SweepStart
    \/ SweepExamine
    \/ SweepRemove
    \/ SweepEnd
    \/ SweepExcept

(***************************************************************************)
(* before_request and after_request, which Flask runs around every view.    *)
(***************************************************************************)
\* request.headers.get('X-Request-ID'): not sent, or sent with a value.
NoRequestId == [present |-> FALSE, value |-> <<>>]
RequestIdHeader(v) == [present |-> TRUE, value |-> v]

\* The X-Request-ID headers clients send (one of them empty), and what
\* uuid.uuid4().hex[:16] gives.
InboundIds == {NoRequestId} \cup {RequestIdHeader(v) : v \in {<<>>, <<"r">>, <<"g">>}}
GeneratedIds == {<<"g">>, <<"h">>}

\* The statuses views answer with; 500 is Flask's answer to an exception
\* that no view catches.
ViewStatuses == {200, 304, 400, 401, 404, 413, 500}

\* flask.g before before_request has run.
EmptyG == [has_request_id |-> FALSE, request_id |-> <<>>,
           has_start_time |-> FALSE, start_time |-> 0]

IdleContext ==
    [pc |-> "idle", inbound |-> NoRequestId, g |-> EmptyG,
     response |-> [status |-> 0, headers |-> [none |-> TRUE]]]

\* A faulty variant: the header of the request is not looked at.
RequestId_AlwaysGenerated(inbound, generated) == generated

\* Line 108: request.headers.get('X-Request-ID', uuid.uuid4().hex[:16])
RequestId(inbound, generated) ==
    IF inbound.present THEN inbound.value ELSE generated

\* Lines 104-109
BeforeRequest ==
    /\ rq.pc = "idle"
    /\ \E inbound \in InboundIds, generated \in GeneratedIds :
         rq' = [IdleContext EXCEPT
                  !.pc = "view", !.inbound = inbound,
                  !.g = [has_request_id |-> TRUE,
                         request_id |-> RequestId(inbound, generated),
                         has_start_time |-> TRUE, start_time |-> now]]
    /\ UNCHANGED <<store, now, PDF_ENABLED, API_KEY, up, ft, sts, sw, client, st>>

\* The view (or Flask, for an exception the view lets through) gives a
\* response.
View ==
    /\ rq.pc = "view"
    /\ \E status \in ViewStatuses :
         rq' = [rq EXCEPT !.pc = "after", !.response.status = status]
    /\ UNCHANGED <<store, now, PDF_ENABLED, API_KEY, up, ft, sts, sw, client, st>>

\* Lines 116-121: the headers after_request sets; the duration is in ticks.
HookHeaders(g, time) ==
    [XRequestID |-> IF g.has_request_id THEN g.request_id ELSE <<"unknown">>]
    @@ (IF g.has_start_time
        THEN [XResponseTime |-> <<time - g.start_time, "ms">>]
        ELSE [none |-> TRUE])

\* Lines 112-123
AfterRequest ==
    /\ rq.pc = "after"
    /\ rq' = [rq EXCEPT !.pc = "done",
                        !.response.headers = HookHeaders(rq.g, now) @@ @]
    /\ UNCHANGED <<store, now, PDF_ENABLED, API_KEY, up, ft, sts, sw, client, st>>

\* The response has gone out; the request's context is dropped.
Deliver ==
    /\ rq.pc = "done"
    /\ rq' = IdleContext
    /\ UNCHANGED <<store, now, PDF_ENABLED, API_KEY, up, ft, sts, sw, client, st>>

Hooks ==
    \/ BeforeRequest
    \/ View
    \/ AfterRequest
    \/ Deliver

(***************************************************************************)
(* start_cleanup_thread.                                                    *)
(***************************************************************************)
\* The threads that call start_cleanup_thread: the one that loads the module
\* (line 546) and two more.
Callers == {"import", "c1", "c2"}

\* Line 200, before any call.
NotStarted ==
    [cleanup_started |-> FALSE, threads |-> 0, pc |-> [c \in Callers |-> "idle"]]

\* After the call of line 546, made alone.
Started ==
    [cleanup_started |-> TRUE, threads |-> 1, pc |-> [c \in Callers |-> "idle"]]

\* Line 204: if not _cleanup_started
StartTest(c) ==
    /\ st.pc[c] = "idle"
    /\ st' = [st EXCEPT !.pc[c] = IF st.cleanup_started THEN "done" ELSE "start"]
    /\ UNCHANGED <<store, now, PDF_ENABLED, API_KEY, up, ft, sts, sw, client, rq>>

\* Lines 205-206: a thread is made and started.
StartThread(c) ==
    /\ st.pc[c] = "start"
    /\ st' = [st EXCEPT !.pc[c] = "set", !.threads = @ + 1]
    /\ UNCHANGED <<store, now, PDF_ENABLED, API_KEY, up, ft, sts, sw, client, rq>>

\* Line 207: _cleanup_started = True
StartSet(c) ==
    /\ st.pc[c] = "set"
    /\ st' = [st EXCEPT !.pc[c] = "done", !.cleanup_started = TRUE]
    /\ UNCHANGED <<store, now, PDF_ENABLED, API_KEY, up, ft, sts, sw, client, rq>>

\* The call returns; the caller may call again.
StartReturn(c) ==
    /\ st.pc[c] = "done"
    /\ st' = [st EXCEPT !.pc[c] = "idle"]
    /\ UNCHANGED <<store, now, PDF_ENABLED, API_KEY, up, ft, sts, sw, client, rq>>

start_cleanup_thread(c) ==
    \/ StartTest(c)
    \/ StartThread(c)
    \/ StartSet(c)
    \/ StartReturn(c)

(***************************************************************************)
(* Start of the process.                                                    *)
(***************************************************************************)

\* Lines 75-101: HTML_DIR is made if missing and used as found, and the
\* configuration comes from the environment.
\* The state once the module is loaded, but for st.
Boot(dirs, pdf, keys) ==
    /\ store \in dirs
    /\ now = 0
    /\ PDF_ENABLED \in pdf
    /\ API_KEY \in keys
    /\ up = [p \in Uploaders |-> IdleUpload]
    /\ ft = IdleFetch
    /\ sts = IdleStats
    /\ sw = IdleSweeper
    /\ client = NoCache
    /\ rq = IdleContext

\* ... with the call of line 546 done, as every request finds the process.
Loaded(dirs, pdf, keys) == Boot(dirs, pdf, keys) /\ st = Started

Init == Loaded({EmptyDir, FoundDir}, BOOLEAN, {"", "k1"})

\* No request is being handled and no sweep is running.
Quiet ==
    /\ \A p \in Uploaders : up[p].pc = "idle"
    /\ ft.pc = "idle"
    /\ sts.pc = "idle"
    /\ sw.pc = "sleep"
    /\ rq.pc = "idle"

\* Time passes.  A tick (a unit of MAX_FILE_AGE) is longer than a request or
\* a sweep takes, so it falls between them.
Tick ==
    /\ now < MaxTime
    /\ Quiet
    /\ now' = now + 1
    /\ UNCHANGED <<store, PDF_ENABLED, API_KEY, up, ft, sts, sw, client, rq, st>>

(***************************************************************************)
(* The requests clients send.                                               *)
(***************************************************************************)
Bodies == SeqsUpTo(BodyBytes, MaxBodyLen) \cup {EAcute, CutShort}

AllRequests ==
    {Request(raw, chunked, key) : raw \in Bodies, chunked \in BOOLEAN, key \in Keys}

\* Two small valid bodies, sent with their length and without a key.
PlainRequests == {Request(raw, FALSE, "") : raw \in {<<LF>>, EAcute}}

\* One of them.
OneRequest == {Request(<<LF>>, FALSE, "")}

(***************************************************************************)
(* SpecUpload: one upload worker, every request, every configuration.       *)
(***************************************************************************)
InitUpload == Loaded({EmptyDir}, BOOLEAN, {"", "k1"})

NextUpload == Upload("u1", AllRequests)

SpecUpload == InitUpload /\ [][NextUpload]_vars

(***************************************************************************)
(* SpecRace: two upload workers at once, no key configured.                 *)
(***************************************************************************)
InitRace == Loaded({EmptyDir}, BOOLEAN, {""})

NextRace == \E p \in Uploaders : Upload(p, PlainRequests)

SpecRace == InitRace /\ [][NextRace]_vars

(***************************************************************************)
(* SpecFetch: a fetch beside an upload worker.                              *)
(***************************************************************************)
InitFetch == Loaded({EmptyDir, FoundDir}, BOOLEAN, {""})

NextFetch == Fetch \/ Upload("u1", PlainRequests)

SpecFetch == InitFetch /\ [][NextFetch]_vars

(***************************************************************************)
(* SpecSweep: the sweeper beside an upload worker, while time passes.       *)
(***************************************************************************)
InitSweep == Loaded({EmptyDir, FoundDir}, BOOLEAN, {""})

NextSweep == Sweep \/ Tick \/ Upload("u1", OneRequest)

SpecSweep == InitSweep /\ [][NextSweep]_vars

(***************************************************************************)
(* SpecStats: /stats beside an upload worker.                               *)
(***************************************************************************)
InitStats == Loaded({EmptyDir, FoundDir}, BOOLEAN, {""})

NextStats == Stats \/ Upload("u1", PlainRequests)

SpecStats == InitStats /\ [][NextStats]_vars

(***************************************************************************)
(* SpecHooks: requests through before_request and after_request, while      *)
(* time passes.                                                             *)
(***************************************************************************)
InitHooks == Loaded({EmptyDir}, {FALSE}, {""})

NextHooks == Hooks \/ Tick

SpecHooks == InitHooks /\ [][NextHooks]_vars

(***************************************************************************)
(* SpecVanish: fetches and /stats beside the sweeper, over a directory that *)
(* holds the files of an earlier run of the process.                        *)
(***************************************************************************)
\* HTML_DIR as a restarted process finds it (line 77 keeps what is there):
\* an upload's HTML file and a foreign file.
LeftDir ==
    [n \in DirNames |->
       IF n = HtmlName(<<"a">>) THEN File(<<LF>>, 0)
       ELSE IF n = ForeignName THEN File(<<LF>>, 0)
       ELSE NoFile]

InitVanish == Loaded({LeftDir}, {TRUE}, {""})

NextVanish == Fetch \/ Stats \/ Sweep \/ Tick

SpecVanish == InitVanish /\ [][NextVanish]_vars

(***************************************************************************)
(* SpecStart: calls of start_cleanup_thread, from before the first.         *)
(***************************************************************************)
InitStart == Boot({EmptyDir}, {TRUE}, {""}) /\ st = NotStarted

NextStart == \E c \in Callers : start_cleanup_thread(c)

SpecStart == InitStart /\ [][NextStart]_vars

(***************************************************************************)
(* SpecLoop: the sweeper thread beside /stats requests, scheduled fairly:   *)
(* the thread is a daemon thread of the process and time.sleep returns, so  *)
(* a step of it that stays possible is taken.                               *)
(***************************************************************************)
InitLoop == Loaded({LeftDir, FoundDir}, {TRUE}, {""})

NextLoop == Sweep \/ Tick \/ Stats

SpecLoop == InitLoop /\ [][NextLoop]_vars /\ WF_vars(Sweep)

(***************************************************************************)
(* Claims.                                                                  *)
(***************************************************************************)
Responded(p) == up[p].pc = "done"
Accepted(p) == up[p].pc = "done" /\ up[p].response.status = 200

\* The request passes authentication: no key is configured, or the header
\* carries it.
Authenticated(req) == API_KEY = "" \/ req.key = API_KEY

\* The bytes of the body's text in UTF-8.
Utf8Length(raw) == Len(Utf8Encode(Utf8Decode(raw)))

\* The upload's request is one C1 speaks of: a non-empty body of valid UTF-8,
\* no longer than the limit, that passes authentication.
ValidUpload(req) ==
    /\ req.raw # <<>>
    /\ ValidUtf8(req.raw)
    /\ Len(req.raw) <= MAX_CONTENT_LENGTH
    /\ Authenticated(req)

\* C1: every upload of a valid non-empty body within the size limit is
\* answered 2xx with an id, and GET /files/<id>.html right after the answer
\* gives 200 and exactly the uploaded bytes.  (An upload whose write to disk
\* raised is left aside: it is answered 500.)
C1_UploadThenFetch ==
    \A p \in Uploaders :
        (Responded(p) /\ ValidUpload(up[p].req) /\ up[p].response.status # 500)
        => /\ up[p].response.status = 200
           /\ ServeNow(HtmlName(up[p].response.json.id), NoHeader).status = 200
           /\ ServeNow(HtmlName(up[p].response.json.id), NoHeader).body = up[p].req.raw

\* C2: two uploads that are both answered with success never carry the same
\* id.
C2_DistinctIds ==
    \A p, q \in Uploaders :
        (p # q /\ Accepted(p) /\ Accepted(q))
        => up[p].response.json.id # up[q].response.json.id

\* C6 as stated: an upload with an empty body is always answered 400 with an
\* error message and has written no file.
C6_EmptyBodyAlways400 ==
    \A p \in Uploaders :
        (Responded(p) /\ up[p].req.raw = <<>>)
        => /\ up[p].response.status = 400
           /\ "error" \in DOMAIN up[p].response.json
           /\ up[p].wrote = {}

\* C6, amended: an upload with an empty body that passes authentication is
\* answered 400 with an error message and has written no file.
C6_EmptyBodyRejected ==
    \A p \in Uploaders :
        (Responded(p) /\ up[p].req.raw = <<>> /\ Authenticated(up[p].req))
        => /\ up[p].response.status = 400
           /\ "error" \in DOMAIN up[p].response.json
           /\ up[p].wrote = {}

\* An empty body with the configured key is answered 400.
C6_Witness ==
    \E p \in Uploaders :
        /\ Responded(p) /\ up[p].req.raw = <<>> /\ up[p].req.key = "k1"
        /\ API_KEY = "k1" /\ up[p].response.status = 400

\* The body exceeds the limit by its declared length or by the length of its
\* text in UTF-8.
ExceedsLimit(req) ==
    \/ (~req.chunked /\ Len(req.raw) > MAX_CONTENT_LENGTH)
    \/ Utf8Length(req.raw) > MAX_CONTENT_LENGTH

\* C7 as stated: an upload whose body exceeds the limit is always answered
\* 413, and one whose body does not exceed it is not answered 413.
C7_OversizeAlways413 ==
    \A p \in Uploaders :
        Responded(p) => (up[p].response.status = 413 <=> ExceedsLimit(up[p].req))

\* C7, amended: an upload that passes authentication is answered 413 exactly
\* when its body exceeds the limit, by declared or by actual length; a body
\* at the limit is not answered 413.
C7_OversizeRejected ==
    \A p \in Uploaders :
        (Responded(p) /\ Authenticated(up[p].req))
        => (up[p].response.status = 413 <=> ExceedsLimit(up[p].req))

\* A body within the limit as received, over it once decoded and encoded.
C7_Witness ==
    \E p \in Uploaders :
        /\ Responded(p) /\ up[p].response.status = 413
        /\ Len(up[p].req.raw) <= MAX_CONTENT_LENGTH

RenderFailures == {"non200", "ConnectionError", "Timeout"}

\* C8: with rendering disabled no upload response holds pdf_url,
\* pdf_filename or pdf_generated; with rendering enabled and the render call
\* failed, the upload is answered with success, pdf_generated false, and the
\* HTML file it wrote is in the store.
C8_RenderNeverFatal ==
    \A p \in Uploaders :
        Responded(p) =>
          /\ (~PDF_ENABLED /\ "json" \in DOMAIN up[p].response)
             => DOMAIN up[p].response.json
                  \cap {"pdf_url", "pdf_filename", "pdf_generated"} = {}
          /\ up[p].outcome \in RenderFailures
             => /\ PDF_ENABLED
                /\ up[p].response.status = 200
                /\ up[p].response.json.success
                /\ up[p].response.json.pdf_generated = FALSE
                /\ up[p].response.json.pdf_url = Null
                /\ Exists(HtmlName(up[p].response.json.id))
                /\ HtmlName(up[p].response.json.id) \in up[p].wrote

\* The render service was not reachable and the upload is answered 200.
C8_Witness ==
    \E p \in Uploaders :
        /\ Responded(p) /\ up[p].outcome = "ConnectionError"
        /\ up[p].response.status = 200

\* The name is one C4 turns away: no accepted extension, or a separator.
BadName(filename) ==
    \/ ~(EndsWith(filename, HtmlExt) \/ EndsWith(filename, PdfExt))
    \/ Contains(filename, "/")
    \/ Contains(filename, "\\")

\* C4: a fetch of a name without an accepted extension or with a path
\* separator is answered 400 and makes no file-system call: it is never at
\* one of the handler's file-system steps.
C4_BadNameIs400 ==
    (ft.pc # "idle" /\ BadName(ft.filename))
    => /\ ft.pc = "done"
       /\ ft.response.status = 400
       /\ ft.fs = 0

\* A name with a backslash is answered 400.
C4_Witness ==
    /\ ft.pc = "done" /\ ft.filename = Backslashed /\ ft.response.status = 400

\* C9: a fetch of a well-formed name of which the store holds no file is
\* answered 404, for .html and for .pdf.  (Nothing removes files here, so a
\* file absent at the answer was absent throughout the request.)
C9_MissingIs404 ==
    (ft.pc = "done" /\ ~BadName(ft.filename) /\ ~Exists(ft.filename))
    => ft.response.status = 404

\* a.pdf is fetched while a.html is there and a.pdf is not: 404.
C9_Witness ==
    /\ ft.pc = "done" /\ ft.filename = PdfName(<<"a">>) /\ ~Exists(ft.filename)
    /\ Exists(HtmlName(<<"a">>)) /\ ft.response.status = 404

\* C5: once a fetch of a name was answered 200 with an ETag, a later fetch
\* of that name (its file has been there ever since: nothing removes files
\* here) that is answered 200 carries the same ETag, and one that sends the
\* ETag as If-None-Match is answered 304 without a body.
C5_SameETag ==
    (ft.pc = "done" /\ client # NoCache /\ client.filename = ft.filename)
    => /\ ft.response.status = 200 => ft.response.headers.ETag = client.etag
       /\ ft.if_none_match = client.etag
          => (ft.response.status = 304 /\ ft.response.body = <<>>)

\* The step that ends a sweep, by reaching the end of the listing or by an
\* exception.
SweepEnds == sw.pc = "scan" /\ sw'.pc # "scan"

\* C3: when a sweep ends, every file it listed whose age then exceeded
\* MAX_FILE_AGE is gone (removed, or replaced by a later upload), and every
\* file it listed whose age was below MAX_FILE_AGE is still there.  The file
\* at whose removal an exception ended the sweep is left aside.
C3_SweepEvicts ==
    [][SweepEnds =>
         \A name \in DirNames :
           sw.listed[name].exists =>
             /\ (sw.current_time - sw.listed[name].ctime > MAX_FILE_AGE
                 /\ name # sw.victim) => store'[name] # sw.listed[name]
             /\ sw.current_time - sw.listed[name].ctime < MAX_FILE_AGE
                => store'[name].exists]_vars

\* The number of entries of files whose filename ends with ext.
CountExt(files, ext) ==
    Cardinality({i \in DOMAIN files : EndsWith(files[i].filename, ext)})

\* The entries of files whose filename ends with neither .html nor .pdf.
CountOther(files) ==
    Cardinality({i \in DOMAIN files :
                   /\ ~EndsWith(files[i].filename, HtmlExt)
                   /\ ~EndsWith(files[i].filename, PdfExt)})

RECURSIVE SumSeq(_)
SumSeq(q) == IF q = <<>> THEN 0 ELSE Head(q) + SumSeq(Tail(q))

\* /stats has a response of status 200 at hand.
StatsAnswered == sts.pc = "done" /\ sts.response.status = 200

\* The total of the sizes is the sum of the sizes of exactly the files
\* listed: one entry for each file read, each with that file's size, and
\* total_size_mb the rounded sum.
SizesAddUp ==
    LET json == sts.response.json
    IN  /\ Len(sts.sizes) = Len(json.files)
        /\ \A i \in DOMAIN json.files :
             json.files[i].size_kb = Round2(sts.sizes[i], KB)
        /\ \A i, j \in DOMAIN json.files :
             json.files[i].filename = json.files[j].filename => i = j
        /\ sts.total_size = SumSeq(sts.sizes)
        /\ json.total_size_mb = Round2(SumSeq(sts.sizes), MB)

\* C10 as stated: whatever the directory holds, the response of /stats has
\* html_files + pdf_files = total_files, and its size total is the sum of the
\* sizes of exactly the files it lists.
C10_StatsTotals ==
    StatsAnswered =>
      LET json == sts.response.json
      IN  /\ json.html_files + json.pdf_files = json.total_files
          /\ SizesAddUp

\* C10, amended: html_files and pdf_files count the listed files named
\* *.html and *.pdf, and total_files counts every listed file, those of
\* another name too: total_files = html_files + pdf_files + the number of
\* listed files that are neither; the size total is the sum of the sizes of
\* exactly the files listed.
C10_StatsTotalsWithOthers ==
    StatsAnswered =>
      LET json == sts.response.json
      IN  /\ json.html_files = CountExt(json.files, HtmlExt)
          /\ json.pdf_files = CountExt(json.files, PdfExt)
          /\ json.total_files = Len(json.files)
          /\ json.total_files
               = json.html_files + json.pdf_files + CountOther(json.files)
          /\ SizesAddUp

\* /stats answers for a directory that holds an HTML file, a PDF and a
\* foreign file.
C10_Witness ==
    /\ StatsAnswered
    /\ sts.response.json.html_files >= 1
    /\ sts.response.json.pdf_files >= 1
    /\ CountOther(sts.response.json.files) >= 1
    /\ sts.total_size > 0

\* C11: with an API key configured, an upload whose X-API-Key is missing or
\* differs from it is answered 401 whatever its body, has written no file
\* and made no render call; with no key configured, no upload is answered
\* 401.
C11_BadKeyIs401 ==
    \A p \in Uploaders :
        Responded(p) =>
          /\ (API_KEY # "" /\ up[p].req.key # API_KEY)
             => /\ up[p].response.status = 401
                /\ "error" \in DOMAIN up[p].response.json
                /\ up[p].wrote = {}
                /\ up[p].renders = 0
          /\ API_KEY = "" => up[p].response.status # 401

\* A wrong key with a body that would otherwise be stored is answered 401.
C11_Witness ==
    \E p \in Uploaders :
        /\ Responded(p) /\ API_KEY = "k1" /\ up[p].req.key = "k2"
        /\ up[p].req.raw = <<LF>> /\ up[p].response.status = 401

\* C12: a 200 response of serve_file carries the ETag, Cache-Control
\* "public, max-age=3600" and X-Content-Type-Options nosniff; it carries
\* Content-Security-Policy and X-Frame-Options exactly when the file is
\* HTML, and Content-Disposition "inline" with the file's name exactly when
\* it is a PDF.
C12_HeadersByKind ==
    (ft.pc = "done" /\ ft.response.status = 200) =>
      LET h == ft.response.headers
      IN  /\ {"ETag", "CacheControl", "XContentTypeOptions"} \subseteq DOMAIN h
          /\ h.ETag = ft.etag
          /\ h.CacheControl = "public, max-age=3600"
          /\ h.XContentTypeOptions = "nosniff"
          /\ "ContentSecurityPolicy" \in DOMAIN h <=> EndsWith(ft.filename, HtmlExt)
          /\ "XFrameOptions" \in DOMAIN h <=> EndsWith(ft.filename, HtmlExt)
          /\ "ContentDisposition" \in DOMAIN h <=> EndsWith(ft.filename, PdfExt)
          /\ EndsWith(ft.filename, PdfExt)
             => h.ContentDisposition = <<"inline; filename=">> \o ft.filename

\* A PDF is served with 200.
C12_Witness ==
    /\ ft.pc = "done" /\ ft.response.status = 200
    /\ ft.filename = PdfName(<<"a">>)

\* The step in which upload worker p produces a successful response.
Succeeds(p) ==
    up[p].pc # "done" /\ up'[p].pc = "done" /\ up'[p].response.status = 200

\* C13: in the response of a successful upload, filename is <id>.html for
\* the id returned; where the response has the PDF's fields, pdf_filename
\* and pdf_url are not null exactly when pdf_generated is true, and then
\* pdf_filename is <id>.pdf for the same id and the store holds a file of
\* that name as the response is produced.
C13_ResponseFields ==
    [][\A p \in Uploaders :
         Succeeds(p) =>
           LET json == up'[p].response.json
           IN  /\ json.filename = json.id \o HtmlExt
               /\ "pdf_generated" \in DOMAIN json
                  => /\ json.pdf_filename # Null <=> json.pdf_generated
                     /\ json.pdf_url # Null <=> json.pdf_generated
                     /\ json.pdf_generated
                        => /\ json.pdf_filename = json.id \o PdfExt
                           /\ store'[json.pdf_filename].exists]_vars

\* An upload has been answered with a PDF.
C13_Witness ==
    \E p \in Uploaders :
        /\ Accepted(p) /\ PDF_ENABLED
        /\ up[p].response.json.pdf_generated
        /\ up[p].response.json.pdf_filename = PdfName(up[p].response.json.id)

\* C14: every response carries X-Request-ID, equal to the request's
\* X-Request-ID header when it has one and else a value generated for the
\* request, and X-Response-Time.
C14_RequestIdEchoed ==
    rq.pc = "done" =>
      LET h == rq.response.headers
      IN  /\ {"XRequestID", "XResponseTime"} \subseteq DOMAIN h
          /\ rq.inbound.present => h.XRequestID = rq.inbound.value
          /\ ~rq.inbound.present => h.XRequestID \in GeneratedIds

\* A request that sent X-Request-ID "r" is answered 500 with it.
C14_Witness ==
    /\ rq.pc = "done" /\ rq.inbound = RequestIdHeader(<<"r">>)
    /\ rq.response.status = 500
    /\ rq.response.headers.XRequestID = <<"r">>

\* The step in which os.remove raises: the sweeper was about to remove
\* victim and the file is as it was.
RemoveRaises ==
    /\ sw.pc = "scan" /\ sw.victim # NoName
    /\ sw' # sw
    /\ store'[sw.victim] = store[sw.victim]

\* C15: an error at one file does not end the sweep: when os.remove raises
\* while the listing still has a file older than MAX_FILE_AGE, the sweep
\* goes on with the rest of the listing.
C15_SweepGoesOn ==
    [][(RemoveRaises
        /\ \E name \in sw.todo :
             Exists(name) /\ Expired(sw.current_time, store[name].ctime))
       => (sw'.pc = "scan" /\ sw'.todo = sw.todo)]_vars

\* The complete contents a file of this name can have: what an upload
\* writes for one of the bodies sent, or the rendition of it.
CompleteContents(filename) ==
    IF EndsWith(filename, HtmlExt)
    THEN {WriteText(GetData(req)) : req \in PlainRequests}
    ELSE {Rendition(GetData(req)) : req \in PlainRequests}

\* C16: a fetch that overlaps an upload of the same name finds no file or is
\* given the complete bytes of the file, never an empty file or a part of
\* it.
C16_NoPartialRead ==
    (ft.pc = "done" /\ ft.response.status = 200)
    => ft.response.body \in CompleteContents(ft.filename)

\* C17: a file that the sweeper removes between a handler's look at the
\* directory and its access to the file counts as not found: no fetch and
\* no /stats request ends in an unhandled error.  (In SpecVanish nothing but
\* the sweeper's removal makes a handler fail.)
C17_VanishIsNotFound ==
    /\ ft.pc = "done" => ft.response.status \in {200, 304, 400, 404}
    /\ sts.pc = "done" => sts.response.status = 200

\* The step in which upload worker p leaves the loop of lines 282-287 and
\* keeps its id.
Adopts(p) == up[p].pc = "check" /\ up'[p].pc = "open"

\* C18: when an upload adopts its id, the store holds neither an HTML file
\* nor a PDF of that id.
C18_AdoptedIdIsFree ==
    [][\A p \in Uploaders :
         Adopts(p) => /\ ~Exists(HtmlName(up[p].file_id))
                      /\ ~Exists(PdfName(up[p].file_id))]_vars

\* C19: the bytes of an artifact do not change while it exists: once a file
\* of an upload has its content, a step leaves the content as it is or
\* removes the file.  (The first write into the file that open has just
\* created empty is left aside.)
C19_BytesImmutable ==
    [][\A name \in ArtifactNames :
         (store[name].exists /\ store[name].bytes # <<>> /\ store'[name].exists)
         => store'[name].bytes = store[name].bytes]_vars

Sweeping == sw.pc \in {"scan", "except"}

\* C21: the sweep loop never stops: whatever error a sweep meets (a failed
\* os.remove, a failed os.listdir), the thread sleeps and starts another
\* sweep; sweeps happen again and again whatever requests there are, and
\* every sweep comes to its end.
C21_SweepsForever ==
    /\ []<>Sweeping
    /\ []<>(sw.pc = "sleep")

\* A sweep has met an error and is in the except clause.
C21_Witness == sw.pc = "except" /\ now = MaxTime

\* The step in which upload worker p has made its call to Gotenberg.
Renders(p) == up'[p].renders > up[p].renders

\* C22: when an upload makes the render call, its HTML file is in the store
\* with the whole content of the upload; and the render call, failed or
\* not, leaves that file as it is.
C22_RenderAfterHtml ==
    [][\A p \in Uploaders :
         Renders(p) =>
           LET html == HtmlName(up[p].file_id)
           IN  /\ html \in up[p].wrote
               /\ store[html].exists
               /\ store[html].bytes = WriteText(up[p].html_content)
               /\ store'[html] = store[html]]_vars

\* A render call has failed and the upload's HTML file is in the store.
C22_Witness ==
    \E p \in Uploaders :
        /\ Responded(p) /\ up[p].outcome = "Timeout" /\ up[p].renders = 1
        /\ Exists(HtmlName(up[p].file_id))
        /\ store[HtmlName(up[p].file_id)].bytes = WriteText(up[p].html_content)

\* Statuses with which upload_html turns a request away.
Rejections == {400, 401, 413}

\* C23: an upload that is accepted while rendering is enabled has made
\* exactly one render call, whether the call failed or not; an upload that
\* is rejected (400, 401, 413), and any upload while rendering is disabled,
\* has made none.
C23_RenderOnce ==
    \A p \in Uploaders :
        Responded(p) =>
          /\ (Accepted(p) /\ PDF_ENABLED) => up[p].renders = 1
          /\ up[p].response.status \in Rejections => up[p].renders = 0
          /\ ~PDF_ENABLED => up[p].renders = 0

\* An upload whose render call was answered with an error is accepted after
\* that one call.
C23_Witness ==
    \E p \in Uploaders :
        /\ Accepted(p) /\ PDF_ENABLED /\ up[p].outcome = "non200"
        /\ up[p].renders = 1

\* The step in which upload worker p's open or write of the HTML file
\* raises: the worker moves on and the store is as it was.
WriteFails(p) ==
    /\ up[p].pc \in {"open", "write"}
    /\ up'[p].pc # up[p].pc
    /\ store' = store

\* C24: an upload whose open or write of the HTML file fails is answered
\* 500, and an upload answered with success has its whole content in the
\* store under the id it returns.
C24_WriteFailureIs500 ==
    [][\A p \in Uploaders :
         /\ WriteFails(p)
            => (up'[p].pc = "done" /\ up'[p].response.status = 500)
         /\ Succeeds(p)
            => LET html == HtmlName(up'[p].response.json.id)
               IN  /\ store'[html].exists
                   /\ store'[html].bytes = WriteText(up[p].html_content)]_vars

\* An upload whose write failed after the file was opened is answered 500.
C24_Witness ==
    \E p \in Uploaders :
        /\ Responded(p) /\ up[p].response.status = 500
        /\ HtmlName(up[p].file_id) \in up[p].wrote
        /\ store[HtmlName(up[p].file_id)].bytes = <<>>


\* The names whose file a step creates, changes or removes.
Changed == {name \in DirNames : store'[name] # store[name]}
OwnNames(p) == {HtmlName(up'[p].file_id), PdfName(up'[p].file_id)}

\* C25: request handling only adds.  A step of GET /files or GET /stats and
\* a step of an upload that is rejected leave the store as it is; a step of
\* an upload touches only files named after the upload's id, and of these
\* only files that were absent or that this upload has itself created; a
\* file disappears only in a step of the sweeper.
C25_RequestsOnlyAdd ==
    [][/\ (ft' # ft \/ sts' # sts) => store' = store
       /\ \A p \in Uploaders :
            up'[p] # up[p] =>
              /\ up'[p].response.status \in Rejections => store' = store
              /\ \A name \in Changed :
                   /\ name \in OwnNames(p)
                   /\ store[name].exists => name \in up[p].wrote
       /\ (\E name \in DirNames : store[name].exists /\ ~store'[name].exists)
            => sw' # sw]_vars

\* The upload has answered 500 before any render call: open or write of the
\* HTML file has failed.
HtmlWriteFailed(p) ==
    Responded(p) /\ up[p].response.status = 500 /\ up[p].renders = 0

\* The upload has answered 200 with pdf_generated false.
ReportsNoPdf(p) ==
    Accepted(p) /\ PDF_ENABLED /\ ~up[p].response.json.pdf_generated

\* When the write of the HTML file has failed, the store holds no HTML file
\* of the candidate id.
NoHtmlLeft(p) == HtmlWriteFailed(p) => ~Exists(HtmlName(up[p].file_id))

\* When the response says pdf_generated false, the store holds no PDF of the
\* id returned.
NoPdfLeft(p) == ReportsNoPdf(p) => ~Exists(PdfName(up[p].response.json.id))

\* C26: an upload that does not report an artifact leaves none: when the
\* write of the HTML file has failed, the store holds no HTML file of the
\* candidate id, and when the response says pdf_generated false, the store
\* holds no PDF of the id returned.
C26_NothingLeftBehind == \A p \in Uploaders : NoHtmlLeft(p) /\ NoPdfLeft(p)

====
